---- MODULE Spec2Model ----
\* dynamic_list.h: a growable array whose header (ListPrelude) sits in front of
\* the element buffer in one allocated block.  One list is followed from
\* create_list to list_free; the heap and the allocator calls are part of the
\* state.
EXTENDS Integers, Sequences, FiniteSets, TLC

\* ---------------------------------------------------------------- bounds
SizeBits == 12     \* width of size_t in the model (arithmetic is modulo 2^SizeBits)
MaxInitCap == 1    \* create_list is called with capacity 0..MaxInitCap
MaxLen == 3        \* an append/resize is issued only while length + count <= MaxLen
MaxCount == 2      \* list_resize is called with desired 0..MaxCount
NumAddr == 2       \* block addresses 1..NumAddr

\* ------------------------------------------------------ program constants
NullPtr == 0       \* NULL
DEFAULT_LIST_CAPACITY == 16
SizeofInt == 4     \* sizeof(int), the element type of example.c
ExampleCount == 100     \* example.c appends 100 items, then resizes by 100
HeaderSize == 32   \* sizeof(ListPrelude): two size_t and a max_align_t-aligned pointer

SizeMod == 2 ^ SizeBits
Addr == 1 .. NumAddr
TypeSizes == {4, 8}               \* sizeof of the element / item expression types (int, long long)
Values == {"v1", "v2"}            \* element values (representable in every type)
Uninit == "uninit"                \* content of a slot nobody wrote
OutOfBlock == "out_of_block"      \* what a read outside the block yields: nothing reliable
AllocatorArgs == {"NULL", "custom"}

\* size_t arithmetic
SzAdd(a, b) == (a + b) % SizeMod
SzSub(a, b) == (a - b + SizeMod) % SizeMod
SzMul(a, b) == (a * b) % SizeMod

VARIABLES
    pc,            \* "start", "idle", "loop", "tail", "nolist", "freed", "crashed", "corrupt",
                   \* "rejected" (the program does not compile)
    list,          \* the caller's list variable: address of the block, or NullPtr
    stride,        \* sizeof(*(list)): the element size the list was created with
    heap,          \* heap[a]: size of the live block at address a, 0 when none
    prelude,       \* the ListPrelude of the list's block: capacity, length, allocator
    data,          \* the element slots that lie inside the block, slot i at data[i+1]
    op,            \* the operation last called, with its arguments while it runs
    desired_capacity,   \* local of list_ensure_capacity (0 outside the call)
    new_capacity,       \* local of list_ensure_capacity (0 outside the call)
    ret,           \* index of the slot the last append/resize returned a pointer to
                   \* (0 once the next operation is called)
    fault,         \* "none", "null_store" (write through NULL), "heap_overflow"
    stats,         \* per allocator: calls of alloc, realloc, free, and net bytes handed out
    calls,         \* every allocator call made: <<function, allocator, context passed>>
    realloc_result,     \* <<p>> when the realloc of the running call returned p, else <<>>
    appended,      \* the values appended so far, while nothing but appends was done
    fresh,         \* TRUE while the list has seen nothing but appends
    initial_capacity,   \* the capacity the list was created with, while fresh; else 0
    cleared        \* <<capacity, list, realloc calls>> as they were at the last list_clear,
                   \* while only appends and resizes within that capacity followed; else <<>>

vars == <<pc, list, stride, heap, prelude, data, op, desired_capacity, new_capacity,
          ret, fault, stats, calls, realloc_result, appended, fresh, initial_capacity,
          cleared>>

\* --------------------------------------------------------------- allocator
\* create_list: a NULL allocator argument selects the default allocator
ResolveAllocator(a) == IF a = "NULL" THEN "default_allocator" ELSE a

\* the .context member of an Allocator
AllocatorContext(a) == IF a = "default_allocator" THEN "NULL" ELSE "custom_context"

AllocatorIds == {"default_allocator", "custom"}

NoStats == [a \in AllocatorIds |-> [alloc |-> 0, realloc |-> 0, free |-> 0, bytes |-> 0]]

\* one more call of fn on allocator a, changing its net bytes by delta
Counted(st, a, fn, delta) ==
    [st EXCEPT ![a] = [@ EXCEPT ![fn] = @ + 1, !.bytes = @ + delta]]

LiveBlocks == {a \in Addr : heap[a] > 0}

\* number of whole element slots inside a block of the given size
SlotsIn(size, elem) == IF size < HeaderSize THEN 0 ELSE (size - HeaderSize) \div elem

\* realloc keeps the leading min(old, new) bytes; the rest is indeterminate
Reallocated(d, slots) ==
    [i \in 1 .. slots |-> IF i <= Len(d) THEN d[i] ELSE Uninit]

\* indexed read list[i]
Read(i) == IF i < Len(data) THEN data[i + 1] ELSE OutOfBlock

list_len == prelude.length
list_cap == prelude.capacity

\* ----------------------------------------------------------------- Init
NoOp == [kind |-> "none", item |-> Uninit, item_count |-> 0, item_size |-> 0, index |-> 0,
         allocator |-> "NULL"]

Init ==
    /\ pc = "start"
    /\ list = NullPtr
    /\ stride = 1
    /\ heap = [a \in Addr |-> 0]
    /\ prelude = [capacity |-> 0, length |-> 0, allocator |-> "NULL"]
    /\ data = <<>>
    /\ op = NoOp
    /\ desired_capacity = 0
    /\ new_capacity = 0
    /\ ret = 0
    /\ fault = "none"
    /\ stats = NoStats
    /\ calls = {}
    /\ realloc_result = <<>>
    /\ appended = <<>>
    /\ fresh = TRUE
    /\ initial_capacity = 0
    /\ cleared = <<>>

\* ---------------------------------------------------------- create_list
\* faulty variant: the header is written without looking at what alloc returned
HeaderWritten_unchecked(p) == TRUE

\* line 214: the header is written only when alloc returned a block
HeaderWritten(p) == p # NullPtr

\* faulty variant: the size asked of alloc leaves the header out
CreateSize_no_header(s, capacity) == SzMul(s, capacity)

\* line 212: the size asked of alloc
CreateSize(s, capacity) == SzAdd(HeaderSize, SzMul(s, capacity))

create_list(s, capacity, allocator_arg) ==
    /\ pc = "start"
    /\ LET allocator == ResolveAllocator(allocator_arg)
           size == CreateSize(s, capacity)
       IN \E p \in {NullPtr} \cup Addr :
            /\ stride' = s
            /\ op' = [NoOp EXCEPT !.kind = "create", !.item_count = capacity, !.item_size = s,
                                  !.allocator = allocator_arg]
            /\ calls' = calls \cup {<<"alloc", allocator, AllocatorContext(allocator)>>}
            /\ IF p # NullPtr
                 THEN /\ heap' = [heap EXCEPT ![p] = size]
                      /\ stats' = Counted(stats, allocator, "alloc", size)
                 ELSE /\ heap' = heap
                      /\ stats' = Counted(stats, allocator, "alloc", 0)
            /\ IF HeaderWritten(p)
                 THEN IF p = NullPtr
                        THEN \* a store through NULL
                             /\ fault' = "null_store"
                             /\ pc' = "crashed"
                             /\ UNCHANGED <<prelude, data, list>>
                        ELSE /\ prelude' = [capacity |-> capacity, length |-> 0,
                                            allocator |-> allocator]
                             /\ data' = [i \in 1 .. SlotsIn(size, s) |-> Uninit]
                             /\ list' = p
                             /\ pc' = "idle"
                             /\ fault' = fault
                 ELSE /\ list' = NullPtr
                      /\ pc' = "nolist"
                      /\ UNCHANGED <<prelude, data, fault>>
    /\ initial_capacity' = capacity
    /\ UNCHANGED <<desired_capacity, new_capacity, ret, realloc_result, appended, fresh,
                   cleared>>

\* ------------------------------------------------- list_ensure_capacity
\* faulty variant: the capacity is never grown
GrowthNeeded_never(capacity, desired) == FALSE

\* faulty variant: growth on every call
GrowthNeeded_always(capacity, desired) == TRUE

\* faulty variant: growth already when the demand equals the capacity
GrowthNeeded_at_equal(capacity, desired) == capacity <= desired

\* line 229: growth happens when the capacity is below the demand
GrowthNeeded(capacity, desired) == capacity < desired

\* faulty variant: a single doubling, whatever the demand
LoopContinues_never(nc, desired) == FALSE

\* line 231: the doubling loop goes on while the demand is not met
LoopContinues(nc, desired) == nc < desired

\* faulty variant: growth by a factor of three
Doubled_tripled(nc) == SzMul(nc, 3)

\* lines 230, 232: one doubling
Doubled(nc) == SzMul(nc, 2)

\* line 235: the size asked of realloc
NewSize(nc, item_size) == SzAdd(HeaderSize, SzMul(nc, item_size))

\* line 236: realloc goes through the allocator recorded in the header
ReallocAllocator(h) == h.allocator

\* lines 226-230: entry of list_ensure_capacity up to the loop
EnsureEnter(item_count) ==
    LET desired == SzAdd(prelude.length, item_count)
    IN /\ desired_capacity' = desired
       /\ IF GrowthNeeded(prelude.capacity, desired)
            THEN /\ new_capacity' = Doubled(prelude.capacity)
                 /\ pc' = "loop"
            ELSE /\ new_capacity' = 0
                 /\ pc' = "tail"

\* lines 231-233: one iteration of the doubling loop
list_ensure_capacity_loop ==
    /\ pc = "loop"
    /\ LoopContinues(new_capacity, desired_capacity)
    /\ new_capacity' = Doubled(new_capacity)
    /\ UNCHANGED <<pc, list, stride, heap, prelude, data, op, desired_capacity, ret,
                   fault, stats, calls, realloc_result, appended, fresh, initial_capacity, cleared>>

\* lines 235-240: the reallocation, the unchecked store of the capacity, the return
list_ensure_capacity_realloc ==
    /\ pc = "loop"
    /\ ~LoopContinues(new_capacity, desired_capacity)
    /\ LET new_size == NewSize(new_capacity, op.item_size)
           allocator == ReallocAllocator(prelude)
       IN \E p \in {NullPtr, list} \cup (Addr \ LiveBlocks) :
            /\ calls' = calls \cup {<<"realloc", allocator, AllocatorContext(allocator)>>}
            /\ realloc_result' = <<p>>
            /\ IF p = NullPtr
                 THEN \* realloc failed: the old block stays; prelude->capacity = ...
                      \* is a store through NULL
                      /\ stats' = Counted(stats, allocator, "realloc", 0)
                      /\ fault' = "null_store"
                      /\ pc' = "crashed"
                      /\ UNCHANGED <<heap, prelude, data, list>>
                 ELSE /\ stats' = Counted(stats, allocator, "realloc", new_size - heap[list])
                      /\ heap' = [a \in Addr |-> IF a = p THEN new_size
                                                 ELSE IF a = list THEN 0 ELSE heap[a]]
                      /\ data' = Reallocated(data, SlotsIn(new_size, stride))
                      /\ prelude' = [prelude EXCEPT !.capacity = new_capacity]
                      /\ list' = p
                      /\ pc' = "tail"
                      /\ fault' = fault
    /\ UNCHANGED <<stride, op, desired_capacity, new_capacity, ret, appended, fresh, initial_capacity,
                   cleared>>

\* ---------------------------------------------- list_append, list_resize
\* line 144: &(list)[length++] points to the slot at the old length
AppendReturned(len) == len

\* line 140: &(list)[length += desired] is indexed by the value of the assignment
ResizeReturned(len, count) == SzAdd(len, count)

\* the window opened by list_clear stays open while the demand fits its capacity
StillCleared(item_count) ==
    IF cleared # <<>> /\ prelude.length + item_count <= cleared[1] THEN cleared ELSE <<>>

\* line 142: list_ensure_capacity(list, 1, sizeof(item))
list_append(item, item_size) ==
    /\ pc = "idle"
    /\ op' = [NoOp EXCEPT !.kind = "append", !.item = item, !.item_count = 1,
                          !.item_size = item_size]
    /\ EnsureEnter(1)
    /\ appended' = IF fresh THEN Append(appended, item) ELSE appended
    /\ ret' = 0
    /\ cleared' = StillCleared(1)
    /\ UNCHANGED <<list, stride, heap, prelude, data, fault, stats, calls,
                   realloc_result, fresh, initial_capacity>>

\* line 139: list_ensure_capacity(list, desired, sizeof(*(list)))
list_resize(desired) ==
    /\ pc = "idle"
    /\ op' = [NoOp EXCEPT !.kind = "resize", !.item_count = desired, !.item_size = stride]
    /\ EnsureEnter(desired)
    /\ fresh' = FALSE
    /\ initial_capacity' = 0
    /\ appended' = <<>>
    /\ ret' = 0
    /\ cleared' = StillCleared(desired)
    /\ UNCHANGED <<list, stride, heap, prelude, data, fault, stats, calls,
                   realloc_result>>

\* lines 143-144 and line 140: what the macros do once list_ensure_capacity returned
macro_tail ==
    /\ pc = "tail"
    /\ IF op.kind = "append"
         THEN LET slot == prelude.length
              IN /\ ret' = AppendReturned(slot)
                 /\ prelude' = [prelude EXCEPT !.length = SzAdd(slot, 1)]
                 /\ IF slot < Len(data)
                      THEN /\ data' = [data EXCEPT ![slot + 1] = op.item]
                           /\ pc' = "idle"
                           /\ fault' = fault
                      ELSE \* the store lands outside the block
                           /\ data' = data
                           /\ pc' = "corrupt"
                           /\ fault' = "heap_overflow"
         ELSE /\ ret' = ResizeReturned(prelude.length, op.item_count)
              /\ prelude' = [prelude EXCEPT !.length = SzAdd(@, op.item_count)]
              /\ pc' = "idle"
              /\ UNCHANGED <<data, fault>>
    /\ op' = [NoOp EXCEPT !.kind = op.kind]
    /\ desired_capacity' = 0
    /\ new_capacity' = 0
    /\ realloc_result' = <<>>
    /\ UNCHANGED <<list, stride, heap, stats, calls, appended, fresh, initial_capacity, cleared>>

\* ------------------------------------------------------- list_remove_at
\* faulty variant: the last slot taken after the length was decremented
LastSlot_after_decrement(len) == SzSub(SzSub(len, 1), 1)

\* line 151: the last live slot, taken before the length is decremented
LastSlot(len) == SzSub(len, 1)

\* faulty variant: an index outside the live range is ignored
RemoveAt_checked(len, d, index) ==
    IF index < len /\ index + 1 = len
      THEN [length |-> len - 1, data |-> d, fault |-> "none"]
      ELSE [length |-> len, data |-> d, fault |-> "none"]

\* lines 146-154 on a header length len and the slots d
RemoveAt(len, d, index) ==
    IF index = SzSub(len, 1)
      THEN [length |-> SzSub(len, 1), data |-> d, fault |-> "none"]
      ELSE IF len > 1
             THEN LET last == LastSlot(len)
                  IN IF index < Len(d) /\ last < Len(d)
                       THEN [length |-> SzSub(len, 1),
                             data |-> [d EXCEPT ![index + 1] = d[last + 1]],
                             fault |-> "none"]
                       ELSE [length |-> SzSub(len, 1), data |-> d,
                             fault |-> "heap_overflow"]
             ELSE [length |-> len, data |-> d, fault |-> "none"]

list_remove_at(index) ==
    /\ pc = "idle"
    /\ LET r == RemoveAt(prelude.length, data, index)
       IN /\ prelude' = [prelude EXCEPT !.length = r.length]
          /\ data' = r.data
          /\ IF r.fault = "none"
               THEN UNCHANGED <<pc, fault>>
               ELSE pc' = "corrupt" /\ fault' = r.fault
    /\ op' = [NoOp EXCEPT !.kind = "remove_at", !.index = index]
    /\ fresh' = FALSE
    /\ initial_capacity' = 0
    /\ appended' = <<>>
    /\ ret' = 0
    /\ cleared' = <<>>
    /\ UNCHANGED <<list, stride, heap, desired_capacity, new_capacity, stats, calls,
                   realloc_result>>

\* ---------------------------------------------------------- list_pop_back
\* line 157: the body of list_pop_back names array_header, which nothing
\* defines (the header accessor is list_prelude, line 131)
ArrayHeaderDefined == FALSE

\* a use of list_pop_back: with array_header undefined the translation unit is
\* rejected and the call never runs
list_pop_back ==
    /\ pc = "idle"
    /\ IF ArrayHeaderDefined
         THEN /\ prelude' = [prelude EXCEPT !.length = SzSub(prelude.length, 1)]
              /\ pc' = pc
         ELSE /\ prelude' = prelude
              /\ pc' = "rejected"
    /\ op' = [NoOp EXCEPT !.kind = "pop_back"]
    /\ fresh' = FALSE
    /\ initial_capacity' = 0
    /\ appended' = <<>>
    /\ ret' = 0
    /\ cleared' = <<>>
    /\ UNCHANGED <<list, stride, heap, data, desired_capacity, new_capacity, fault, stats,
                   calls, realloc_result>>

\* ----------------------------------------------- list_clear, list_free
\* line 137
ClearedLength == 0

ReallocCalls == stats["default_allocator"].realloc + stats["custom"].realloc

list_clear ==
    /\ pc = "idle"
    /\ prelude' = [prelude EXCEPT !.length = ClearedLength]
    /\ op' = [NoOp EXCEPT !.kind = "clear"]
    /\ fresh' = FALSE
    /\ initial_capacity' = 0
    /\ appended' = <<>>
    /\ ret' = 0
    /\ cleared' = <<prelude.capacity, list, ReallocCalls>>
    /\ UNCHANGED <<pc, list, stride, heap, data, desired_capacity, new_capacity,
                   fault, stats, calls, realloc_result>>

\* faulty variant: free through the default allocator, whatever the header records
FreeAllocator_default(h) == "default_allocator"

\* line 134: free goes through the allocator recorded in the header
FreeAllocator(h) == h.allocator

list_free ==
    /\ pc = "idle"
    /\ LET allocator == FreeAllocator(prelude)
       IN /\ calls' = calls \cup {<<"free", allocator, AllocatorContext(allocator)>>}
          /\ stats' = Counted(stats, allocator, "free", 0 - heap[list])
    /\ heap' = [heap EXCEPT ![list] = 0]
    /\ pc' = "freed"
    /\ op' = [NoOp EXCEPT !.kind = "free"]
    /\ ret' = 0
    /\ cleared' = <<>>
    /\ UNCHANGED <<list, stride, prelude, data, desired_capacity, new_capacity,
                   fault, realloc_result, appended, fresh, initial_capacity>>

\* ------------------------------------------------------------------ Next
Next ==
    \/ \E s \in TypeSizes, c \in 0 .. MaxInitCap, a \in AllocatorArgs : create_list(s, c, a)
    \/ \E v \in Values, s \in TypeSizes :
          prelude.length + 1 <= MaxLen /\ list_append(v, s)
    \/ \E k \in 0 .. MaxCount :
          prelude.length + k <= MaxLen /\ list_resize(k)
    \/ list_ensure_capacity_loop
    \/ list_ensure_capacity_realloc
    \/ macro_tail
    \/ \E i \in 0 .. MaxLen : list_remove_at(i)
    \/ list_pop_back
    \/ list_clear
    \/ list_free

Spec == Init /\ [][Next]_vars

\* ------------------------------------------------------------ example.c
\* the i-th value of the sequence example.c appends (rand() there)
ExampleValue(i) == IF i % 3 = 0 THEN "v1" ELSE "v2"

\* main of example.c: list_new(int), appends, list_clear, list_resize, list_free;
\* the list may also start from another capacity and be cleared after fewer
\* appends
ExampleNext ==
    \/ \E c \in (0 .. MaxInitCap) \cup {DEFAULT_LIST_CAPACITY} :
          create_list(SizeofInt, c, "NULL")
    \/ /\ fresh
       /\ Len(appended) < ExampleCount
       /\ list_append(ExampleValue(Len(appended)), SizeofInt)
    \/ list_ensure_capacity_loop
    \/ list_ensure_capacity_realloc
    \/ macro_tail
    \/ fresh /\ list_clear
    \/ op.kind = "clear" /\ list_resize(ExampleCount)
    \/ op.kind = "resize" /\ list_free

SpecExample == Init /\ [][ExampleNext]_vars

\* ------------------------------------------------- inputs at the width
\* counts near the width of size_t: the largest value, and a quarter of the range
EdgeCounts == {SizeMod - 1, SizeMod \div 4}

\* (size_t)-1, e.g. list_len(list) - 1 on an empty list
EdgeIndex == SizeMod - 1

\* the operations of Next, and list_resize and list_remove_at with arguments
\* at the edge of size_t, issued while the length is within MaxLen
WrapNext ==
    \/ Next
    \/ \E k \in EdgeCounts : prelude.length <= MaxLen /\ list_resize(k)
    \/ prelude.length <= MaxLen /\ list_remove_at(EdgeIndex)

SpecWrap == Init /\ [][WrapNext]_vars

\* ================================================================ claims
Alive == pc \in {"idle", "loop", "tail", "corrupt", "crashed"}

\* C1: after N appends to a freshly created list, length = N, capacity >= N and
\* the indexed read at every i < N returns the i-th appended value.
C1_AppendCorrectness ==
    (fresh /\ pc \in {"idle", "corrupt"}) =>
        /\ prelude.length = Len(appended)
        /\ prelude.capacity >= Len(appended)
        /\ \A i \in 1 .. Len(appended) : Read(i - 1) = appended[i]

\* C2: list_resize(list, k) on a list of length L makes the length L + k and
\* returns a reference to slot L, the first of the k new slots, which all lie
\* below the new length and within the capacity.
C2_ResizeReturnsFirstNewSlot ==
    [][(pc = "tail" /\ op.kind = "resize") =>
          /\ prelude'.length = prelude.length + op.item_count
          /\ ret' = prelude.length
          /\ ret' + op.item_count <= prelude'.length
          /\ prelude'.length <= prelude'.capacity]_vars

\* the smallest c * 2^k that is >= demand (-1 when there is none: c = 0)
SmallestDoubling(c, demand) ==
    LET S == {n \in {c * (2 ^ k) : k \in 0 .. SizeBits} : n >= demand}
    IN IF S = {} THEN -1 ELSE CHOOSE n \in S : \A m \in S : n <= m

\* C3: list_ensure_capacity grows exactly when length + demand exceeds the
\* capacity c, and a growth ends with the capacity at the smallest c * 2^k that
\* is >= length + demand and with the length unchanged.
C3_GrowthDoubling ==
    [][/\ (pc = "idle" /\ pc' \in {"loop", "tail"}) =>
             (pc' = "loop" <=> prelude.length + op'.item_count > prelude.capacity)
       /\ (pc = "loop" /\ pc' = "tail") =>
             /\ prelude'.capacity =
                    SmallestDoubling(prelude.capacity, prelude.length + op.item_count)
             /\ prelude'.length = prelude.length]_vars

\* a growth by two doublings, 1 -> 4, has just been made for a demand of 3
C3_Witness ==
    /\ pc = "tail"
    /\ op.kind = "resize"
    /\ realloc_result # <<>>
    /\ ReallocCalls = 1
    /\ desired_capacity = 3
    /\ prelude.capacity = 4
    /\ stride = 4 /\ heap[list] = HeaderSize + 16

\* C4: when realloc returns NULL during a growth, the operation reports the
\* failure: nothing is stored through the null result, the header and the
\* elements are as they were and the original block stays live and reachable.
C4_GrowthFailurePropagated ==
    (realloc_result = <<NullPtr>>) =>
        /\ fault = "none"
        /\ pc # "crashed"
        /\ list \in LiveBlocks

\* C5: the growth loop of list_ensure_capacity always makes progress towards
\* its exit, whatever capacity the list was created with: inside the loop a
\* further step (a doubling that changes new_capacity, or the reallocation) is
\* always possible.
C5_GrowthTerminates ==
    (pc = "loop") =>
        ENABLED <<list_ensure_capacity_loop \/ list_ensure_capacity_realloc>>_vars

\* C6: the block of a list created with element size s always has size
\* header_size + capacity * s, so every slot below the capacity is inside it.
C6_BlockSizeTracksStride ==
    (pc \in {"idle", "tail", "loop", "corrupt"}) =>
        /\ heap[list] = HeaderSize + prelude.capacity * stride
        /\ Len(data) >= prelude.capacity

\* number of the slots 0..n-1 of d that hold v
Occurrences(d, n, v) == Cardinality({j \in 1 .. n : d[j] = v})

\* C7: list_remove_at(list, i) with i < length = L decrements the length by one
\* and leaves the capacity; removing the last slot changes no element, removing
\* another one puts the former last value at slot i and leaves every other live
\* slot; the live elements afterwards are those before, less the removed one.
C7_SwapRemove ==
    [][(pc = "idle" /\ op'.kind = "remove_at" /\ op'.index < prelude.length) =>
          LET L == prelude.length
              i == op'.index
          IN /\ pc' = "idle"
             /\ prelude'.length = L - 1
             /\ prelude'.capacity = prelude.capacity
             /\ list' = list /\ heap' = heap
             /\ (i = L - 1) => data' = data
             /\ (i < L - 1) =>
                   /\ data'[i + 1] = data[L]
                   /\ \A j \in 0 .. L - 2 : j # i => data'[j + 1] = data[j + 1]
             /\ (L = 1) => prelude'.length = 0
             /\ \A v \in Values \cup {Uninit} :
                   Occurrences(data', L - 1, v) =
                       Occurrences(data, L, v) - (IF data[i + 1] = v THEN 1 ELSE 0)]_vars

\* slot 0 of three live elements was removed: the former last value v2 is now at
\* slot 0, slot 1 still holds v1
C7_Witness ==
    /\ pc = "idle"
    /\ op.kind = "remove_at" /\ op.index = 0
    /\ prelude.length = 2
    /\ data[1] = "v2" /\ data[2] = "v1" /\ data[3] = "v2"

\* C8: list_clear sets the length to 0 and leaves capacity, handle, block and
\* elements (so clearing a cleared list changes nothing); after it, appends and
\* resizes within the capacity it had make no realloc call and keep the handle.
C8_ClearKeepsCapacity ==
    /\ [][(pc = "idle" /\ op'.kind = "clear") =>
             /\ prelude'.length = 0
             /\ prelude'.capacity = prelude.capacity
             /\ prelude'.allocator = prelude.allocator
             /\ list' = list /\ heap' = heap /\ data' = data /\ stats' = stats
             /\ pc' = "idle"
             /\ (prelude.length = 0) => prelude' = prelude]_vars
    /\ [](cleared # <<>> =>
             /\ pc \in {"idle", "tail"}
             /\ prelude.capacity = cleared[1]
             /\ list = cleared[2]
             /\ ReallocCalls = cleared[3]
             /\ heap[list] > 0)

\* after a clear, a resize has filled the list up to its capacity again
C8_Witness ==
    /\ cleared # <<>>
    /\ pc = "idle"
    /\ op.kind = "resize"
    /\ prelude.length = prelude.capacity
    /\ prelude.length >= 2
    /\ ReallocCalls = cleared[3]

\* C9: every allocator call of the list goes to the allocator recorded at
\* construction, with that allocator's context; while the list exists exactly
\* one block is live, the one the handle names; after list_free the release
\* count is 1, the net bytes are 0 and no block is live.
C9_AllocatorRoundTrip ==
    /\ (pc \notin {"start", "nolist"}) =>
          \A c \in calls :
              /\ c[2] = prelude.allocator
              /\ c[3] = AllocatorContext(prelude.allocator)
    /\ Alive => (LiveBlocks = {list}
                 /\ stats[prelude.allocator].bytes = heap[list]
                 /\ \A a \in AllocatorIds : stats[a].free = 0)
    /\ (pc = "freed") =>
          /\ LiveBlocks = {}
          /\ stats[prelude.allocator].free = 1
          /\ stats[prelude.allocator].bytes = 0
          /\ stats[prelude.allocator].alloc = 1
          /\ \A a \in AllocatorIds \ {prelude.allocator} :
                 stats[a] = [alloc |-> 0, realloc |-> 0, free |-> 0, bytes |-> 0]

\* a list of the custom allocator was released after two relocating growths
C9_Witness ==
    /\ pc = "freed"
    /\ prelude.allocator = "custom"
    /\ stats["custom"].realloc = 2
    /\ stats["custom"].free = 1

\* C10: when alloc fails, create_list returns NULL, writes no header, makes no
\* further allocator call and leaves no block live.
C10_CreateFailure ==
    (op.kind = "create" /\ LiveBlocks = {}) =>
        /\ pc = "nolist"
        /\ list = NullPtr
        /\ fault = "none"
        /\ prelude = [capacity |-> 0, length |-> 0, allocator |-> "NULL"]
        /\ data = <<>>
        /\ Cardinality(calls) = 1
        /\ \E a \in AllocatorIds :
              /\ stats[a] = [alloc |-> 1, realloc |-> 0, free |-> 0, bytes |-> 0]
              /\ \A b \in AllocatorIds \ {a} : stats[b] = NoStats[b]

\* create_list came back with NULL from the custom allocator
C10_Witness ==
    /\ pc = "nolist"
    /\ op.kind = "create"
    /\ list = NullPtr
    /\ stats["custom"].alloc = 1

\* C11: a successful create_list makes exactly one alloc call, of size
\* header_size + element_size * initial_capacity, and yields length 0, capacity
\* initial_capacity and the given allocator recorded, the default allocator
\* (with its null context) when the argument is NULL.
C11_CreateResult ==
    [][(pc = "start" /\ pc' = "idle") =>
          LET A == IF op'.allocator = "NULL" THEN "default_allocator" ELSE op'.allocator
          IN /\ op'.kind = "create"
             /\ prelude' = [capacity |-> op'.item_count, length |-> 0, allocator |-> A]
             /\ list' \in Addr
             /\ heap' = [a \in Addr |-> IF a = list'
                                          THEN HeaderSize + op'.item_size * op'.item_count
                                          ELSE 0]
             /\ Len(data') = op'.item_count
             /\ calls' = {<<"alloc", A, IF A = "default_allocator" THEN "NULL"
                                                                   ELSE "custom_context">>}
             /\ stats' = [NoStats EXCEPT ![A] =
                             [alloc |-> 1, realloc |-> 0, free |-> 0,
                              bytes |-> HeaderSize + op'.item_size * op'.item_count]]]_vars

\* create_list(8, 1, NULL) has just returned a list of the default allocator
C11_Witness ==
    /\ pc = "idle"
    /\ op.kind = "create" /\ op.allocator = "NULL" /\ op.item_size = 8
    /\ prelude = [capacity |-> 1, length |-> 0, allocator |-> "default_allocator"]
    /\ heap[list] = HeaderSize + 8

\* C12: when list_ensure_capacity is called with length + additional_count <=
\* capacity it makes no allocator call and returns the same handle, with
\* capacity, length and elements unchanged.
C12_NoGrowthPath ==
    [][(/\ pc = "idle"
        /\ op'.kind \in {"append", "resize"}
        /\ prelude.length + op'.item_count <= prelude.capacity) =>
          /\ pc' = "tail"
          /\ realloc_result' = <<>>
          /\ stats' = stats /\ calls' = calls
          /\ list' = list /\ heap' = heap
          /\ prelude' = prelude
          /\ data' = data]_vars

\* list_ensure_capacity has returned for a resize by 2 that fitted the capacity
C12_Witness ==
    /\ pc = "tail"
    /\ op.kind = "resize" /\ op.item_count = 2
    /\ realloc_result = <<>>
    /\ prelude.length + 2 <= prelude.capacity
    /\ ReallocCalls = 1

\* C13: N appends to a fresh list of initial capacity c >= 1 make exactly k
\* realloc calls, k the smallest with c * 2^k >= N, each doubling the capacity
\* once, and end with capacity c * 2^k; for c = 16 and N = 100 these are 3
\* growths (16, 32, 64, 128), final length 100 and capacity 128.
C13_GrowthEvents ==
    /\ [](fresh /\ pc = "idle" /\ initial_capacity >= 1 =>
             LET N == Len(appended)
                 c == initial_capacity
                 k == ReallocCalls
             IN /\ c * (2 ^ k) >= N
                /\ (k = 0 \/ c * (2 ^ (k - 1)) < N)
                /\ prelude.capacity = c * (2 ^ k)
                /\ prelude.length = N
                /\ (c = 16 /\ N = 100) => (k = 3 /\ prelude.capacity = 128))
    /\ [][(fresh /\ pc = "loop" /\ pc' = "tail") =>
             prelude'.capacity = 2 * prelude.capacity]_vars

\* the list of example.c after its 100 appends
C13_Witness ==
    /\ pc = "idle" /\ fresh
    /\ initial_capacity = DEFAULT_LIST_CAPACITY
    /\ Len(appended) = ExampleCount
    /\ ReallocCalls = 3
    /\ prelude.capacity = 128 /\ prelude.length = 100
    /\ \A i \in 0 .. 99 : Read(i) = ExampleValue(i)

\* C14: on a list with length > 0, list_pop_back decrements length by exactly 1
\* and leaves capacity, the allocation, the handle and the remaining slots
\* 0..length-2 unchanged.
C14_PopBack ==
    [][(pc = "idle" /\ op'.kind = "pop_back" /\ prelude.length > 0) =>
          /\ pc' = "idle"
          /\ prelude' = [prelude EXCEPT !.length = prelude.length - 1]
          /\ list' = list /\ heap' = heap
          /\ SubSeq(data', 1, prelude.length - 1) = SubSeq(data, 1, prelude.length - 1)]_vars

\* C15: from a successful create on, under append, resize, remove_at, clear and
\* pop_back with every allocator call succeeding, 0 <= length <= capacity holds
\* whenever the list exists, and no step lowers the capacity.
C15_HeaderInvariant ==
    /\ [](pc \in {"idle", "loop", "tail", "corrupt", "rejected"} =>
             /\ 0 <= prelude.length
             /\ prelude.length <= prelude.capacity)
    /\ [][(pc \in {"idle", "loop", "tail"} /\ pc' \in {"idle", "loop", "tail", "corrupt", "rejected"}) =>
             prelude'.capacity >= prelude.capacity]_vars

\* two growths (1, 2, 4), then a removal inside the live range
C15_Witness ==
    /\ pc = "idle" /\ op.kind = "remove_at" /\ op.index < prelude.length
    /\ ReallocCalls = 2
    /\ prelude.length = 2 /\ prelude.capacity = 4

\* C16 as stated: list_clear, list_remove_at and list_pop_back (list_len and
\* list_cap are reads) make no allocator call and never change capacity,
\* recorded allocator or handle, and list_remove_at on an empty list changes
\* nothing at all.
C16_AsStated ==
    [][(pc = "idle" /\ op'.kind \in {"clear", "remove_at", "pop_back"} /\ pc' # "corrupt") =>
          /\ calls' = calls /\ stats' = stats /\ heap' = heap
          /\ list' = list
          /\ prelude'.capacity = prelude.capacity
          /\ prelude'.allocator = prelude.allocator
          /\ (op'.kind = "remove_at" /\ prelude.length = 0) =>
                (prelude' = prelude /\ data' = data /\ pc' = pc)]_vars

\* C16, amended: the same, except that list_remove_at on an empty list with
\* index = 2^w - 1 (which equals length - 1 in size_t) sets the length to
\* 2^w - 1; with any other index it changes nothing at all.
C16_NonGrowingFrame ==
    [][(pc = "idle" /\ op'.kind \in {"clear", "remove_at", "pop_back"} /\ pc' # "corrupt") =>
          /\ calls' = calls /\ stats' = stats /\ heap' = heap
          /\ list' = list
          /\ prelude'.capacity = prelude.capacity
          /\ prelude'.allocator = prelude.allocator
          /\ (op'.kind = "remove_at" /\ prelude.length = 0) =>
                /\ data' = data /\ pc' = pc
                /\ IF op'.index = SizeMod - 1
                     THEN prelude' = [prelude EXCEPT !.length = SizeMod - 1]
                     ELSE prelude' = prelude]_vars

\* list_remove_at(list, (size_t)-1) has run on an empty list
C16_Witness ==
    /\ pc = "idle" /\ op.kind = "remove_at" /\ op.index = SizeMod - 1
    /\ prelude.length = SizeMod - 1
    /\ prelude.capacity = 1
    /\ stats[prelude.allocator].alloc = 1 /\ ReallocCalls = 0

\* C17: with size_t arithmetic modulo 2^w, list_ensure_capacity on a list of
\* capacity >= 1 still terminates and returns a list whose capacity is at least
\* the mathematical length + additional_count and whose block has the
\* mathematical size header_size + capacity * element_size.
C17_GrowthArithmetic ==
    /\ []((pc = "loop" /\ prelude.capacity >= 1) =>
             ENABLED <<list_ensure_capacity_loop \/ list_ensure_capacity_realloc>>_vars)
    /\ [][(pc = "idle" /\ op'.kind \in {"append", "resize"} /\ pc' = "tail") =>
             prelude.capacity >= prelude.length + op'.item_count]_vars
    /\ [][(pc = "loop" /\ pc' = "tail") =>
             /\ prelude'.capacity >= prelude.length + op.item_count
             /\ heap'[list'] = HeaderSize + prelude'.capacity * op.item_size]_vars
====
